---- MODULE Spec2Model ----
(***************************************************************************)
(* Auto Preview Markdown: the orchestrator (PreviewManager), the           *)
(* preview-tab correlator (TabTracker), the diff detector (DiffDetector)   *)
(* and the settings source (ConfigManager), run against a host editor      *)
(* whose tab and document model is the environment.                        *)
(*                                                                         *)
(* The extension host sees the editor through a mirror that changes        *)
(* exactly when an event is delivered, so every host change and the        *)
(* listeners it triggers form one step.  Requests of the extension (close  *)
(* a tab, execute a command, show a document, a timer) are answered in a   *)
(* later step; an async function is suspended at its await in between.     *)
(***************************************************************************)
EXTENDS Integers, Sequences, FiniteSets, TLC

\* ------------------------------------------------------------------ bounds
\* user/host events of one behaviour, configuration changes of one
\* behaviour, open operations in flight at once
MaxEvents == 2
MaxCfg == 1
MaxOps == 2

\* ----------------------------------------------------------------- strings
\* A string is a sequence of one-character strings.
LastIndexOf(s, c) ==
    LET I == {i \in 1..Len(s) : s[i] = c}
    IN  IF I = {} THEN 0 ELSE CHOOSE i \in I : \A j \in I : j <= i

\* path.basename
Basename(p) == SubSeq(p, LastIndexOf(p, "/") + 1, Len(p))

\* path.extname: from the last dot of the base name, "" when there is none
\* or when it is the first character
Extname(p) ==
    LET b == Basename(p)
        i == LastIndexOf(b, ".")
    IN  IF i <= 1 THEN <<>> ELSE SubSeq(b, i, Len(b))

\* String.prototype.toLowerCase, letter by letter
UpperCaseLetters ==
    {"A", "B", "C", "D", "E", "F", "G", "H", "I", "J", "K", "L", "M", "N", "O", "P"
     , "Q", "R", "S", "T", "U", "V", "W", "X", "Y", "Z"}

LowerChar(c) ==
    IF c \in UpperCaseLetters
    THEN CASE c = "A" -> "a"
              [] c = "B" -> "b"
              [] c = "C" -> "c"
              [] c = "D" -> "d"
              [] c = "E" -> "e"
              [] c = "F" -> "f"
              [] c = "G" -> "g"
              [] c = "H" -> "h"
              [] c = "I" -> "i"
              [] c = "J" -> "j"
              [] c = "K" -> "k"
              [] c = "L" -> "l"
              [] c = "M" -> "m"
              [] c = "N" -> "n"
              [] c = "O" -> "o"
              [] c = "P" -> "p"
              [] c = "Q" -> "q"
              [] c = "R" -> "r"
              [] c = "S" -> "s"
              [] c = "T" -> "t"
              [] c = "U" -> "u"
              [] c = "V" -> "v"
              [] c = "W" -> "w"
              [] c = "X" -> "x"
              [] c = "Y" -> "y"
              [] c = "Z" -> "z"
    ELSE c

ToLowerCase(s) == [i \in 1..Len(s) |-> LowerChar(s[i])]

\* String.prototype.includes
Includes(s, sub) ==
    \E i \in 1..(Len(s) + 1) :
        /\ i + Len(sub) - 1 <= Len(s)
        /\ SubSeq(s, i, i + Len(sub) - 1) = sub

\* String.prototype.startsWith
StartsWith(s, pre) == Len(pre) <= Len(s) /\ SubSeq(s, 1, Len(pre)) = pre

\* String.prototype.split at a one-character separator
RECURSIVE Split(_, _)
Split(s, c) ==
    IF LastIndexOf(s, c) = 0 THEN <<s>>
    ELSE Append(Split(SubSeq(s, 1, LastIndexOf(s, c) - 1), c),
                SubSeq(s, LastIndexOf(s, c) + 1, Len(s)))

\* String.prototype.trim: the white space at both ends goes
IsSpace(c) == c \in {" ", "\t"}

Trim(s) ==
    LET N == {i \in 1..Len(s) : ~IsSpace(s[i])}
    IN  IF N = {} THEN <<>>
        ELSE SubSeq(s, CHOOSE i \in N : \A j \in N : i <= j,
                       CHOOSE i \in N : \A j \in N : j <= i)

PreviewPrefix == <<"P", "r", "e", "v", "i", "e", "w", " ">>

\* ------------------------------------------------------------------- types
SupportedLanguages == {"markdown", "asciidoc", "restructuredtext"}
Undefined == "undefined"

PREVIEW_COMMANDS ==
    [l \in SupportedLanguages |->
        CASE l = "markdown" ->
               [toSide |-> "markdown.showPreviewToSide", sameGroup |-> "markdown.showPreview"]
          [] l = "asciidoc" ->
               [toSide |-> "asciidoc.showPreviewToSide", sameGroup |-> "asciidoc.showPreview"]
          [] l = "restructuredtext" ->
               [toSide |-> "restructuredtext.showPreviewToSide",
                sameGroup |-> "restructuredtext.showPreview"]]

PREVIEW_VIEW_TYPES ==
    [l \in SupportedLanguages |->
        CASE l = "markdown" -> "markdown.preview"
          [] l = "asciidoc" -> "asciidoc.preview"
          [] l = "restructuredtext" -> "restructuredtext.preview"]

FILE_EXTENSIONS ==
    (<<".", "m", "d">> :> "markdown") @@
    (<<".", "m", "a", "r", "k", "d", "o", "w", "n">> :> "markdown") @@
    (<<".", "m", "d", "o", "w", "n">> :> "markdown") @@
    (<<".", "m", "k", "d">> :> "markdown") @@
    (<<".", "a", "d", "o", "c">> :> "asciidoc") @@
    (<<".", "a", "s", "c", "i", "i", "d", "o", "c">> :> "asciidoc") @@
    (<<".", "r", "s", "t">> :> "restructuredtext") @@
    (<<".", "r", "e", "s", "t">> :> "restructuredtext")

\* --------------------------------------------------------------- documents
\* The documents of the workspace: two markdown files with the same base
\* name in different directories, and one asciidoc file.
Docs == {"A", "B", "C"}
NoDoc == "none"

\* URIs that are asked about without being documents of the workspace
MoreUris ==
    {"D", "E", "F", "G", "H", "I", "J", "K", "L", "M", "N", "O", "P", "Q", "R"}
Uris == Docs \cup MoreUris

\* the original side of a source-control diff: a URI of another scheme
GitUri == "git"

\* uri.fsPath
FsPath ==
    [d \in Uris |->
        CASE d = "A" -> <<"/", "p", "/", "x", ".", "m", "d">>
          [] d = "B" -> <<"/", "q", "/", "x", ".", "m", "d">>
          [] d = "C" -> <<"/", "p", "/", "y", ".", "a", "d", "o", "c">>
          [] d = "D" -> <<"/", "p", "/", "R", ".", "M", "D">>
          [] d = "E" -> <<"/", "d", "/", "f", ".", "m", "a", "r", "k", "d", "o", "w", "n">>
          [] d = "F" -> <<"/", "d", "/", "f", ".", "m", "d", "o", "w", "n">>
          [] d = "G" -> <<"/", "d", "/", "f", ".", "M", "k", "d">>
          [] d = "H" -> <<"/", "d", "/", "f", ".", "a", "s", "c", "i", "i", "d", "o", "c">>
          [] d = "I" -> <<"/", "d", "/", "f", ".", "r", "s", "t">>
          [] d = "J" -> <<"/", "q", "/", "f", ".", "R", "E", "S", "T">>
          [] d = "K" -> <<"/", "d", "/", "f", ".", "t", "x", "t">>
          [] d = "L" -> <<"/", "d", "/", "M", "a", "k", "e", "f", "i", "l", "e">>
          [] d = "M" -> <<"/", "d", "/", ".", "m", "d">>
          [] d = "N" -> <<"/", "d", ".", "m", "d", "/", "f">>
          [] d = "O" -> <<"/", "d", "/", "a", ".", "m", "d", ".", "b", "a", "k">>
          [] d = "P" -> <<"/", "p", "/", "a", "x", ".", "m", "d">>
          [] d = "Q" -> <<"/", "d", "/", "f", ".", "m", "d", "x">>
          [] d = "R" -> <<"/", "d", "/", "f", ".">>]

\* document.languageId, as the host assigns it or the user selects it:
\* /q/x.md is in plain-text language mode
LanguageIdOf ==
    [d \in Uris |->
        CASE d = "A" -> "markdown"
          [] d = "B" -> "plaintext"
          [] d = "C" -> "asciidoc"
          [] d = "D" -> "markdown"
          [] d = "E" -> "markdown"
          [] d = "F" -> "markdown"
          [] d = "G" -> "markdown"
          [] d = "H" -> "asciidoc"
          [] d = "I" -> "restructuredtext"
          [] d = "J" -> "restructuredtext"
          [] d = "K" -> "plaintext"
          [] d = "L" -> "makefile"
          [] d = "M" -> "plaintext"
          [] d = "N" -> "plaintext"
          [] d = "O" -> "plaintext"
          [] d = "P" -> "markdown"
          [] d = "Q" -> "mdx"
          [] d = "R" -> "plaintext"]

Groups == {1, 2}
OtherGroup(g) == IF g = 1 THEN 2 ELSE 1

\* A tab: a text editor of doc, a diff editor whose modified side is doc and
\* whose original side is orig (a source-control diff has the GitUri there), or
\* the webview in which the language's preview extension renders doc.  pom
\* records whether a preview-only open operation created the webview.
Tab(k, d, p) == [kind |-> k, doc |-> d, pom |-> p, orig |-> NoDoc]
TextTab(d) == Tab("text", d, FALSE)
\* a diff editor comparing original o with modified d
DiffOf(o, d) == [kind |-> "diff", doc |-> d, pom |-> FALSE, orig |-> o]
DiffTab(d) == DiffOf(GitUri, d)
NoTab == Tab("none", NoDoc, FALSE)
Ref(g, t) == [grp |-> g, tab |-> t]
NoRef == Ref(0, NoTab)

\* path.basename(uri.fsPath) and path.extname(uri.fsPath).toLowerCase() of
\* each document
BaseOf == [d \in Uris |-> Basename(FsPath[d])]
ExtOf == [d \in Uris |-> ToLowerCase(Extname(FsPath[d]))]

\* tab.label: the preview extensions title their webview "Preview <file>"
TabLabel(t) ==
    IF t.kind = "webview" THEN PreviewPrefix \o BaseOf[t.doc] ELSE BaseOf[t.doc]

\* tab.input.viewType of a webview tab: that of the preview extension whose
\* command rendered the document
TabViewType(t) ==
    PREVIEW_VIEW_TYPES[IF LanguageIdOf[t.doc] \in SupportedLanguages
                       THEN LanguageIdOf[t.doc]
                       ELSE FILE_EXTENSIONS[ExtOf[t.doc]]]

\* ---------------------------------------------------------------- settings
\* validLanguages of parseLanguages, spelled out
LanguageName ==
    [l \in SupportedLanguages |->
        CASE l = "markdown" -> <<"m", "a", "r", "k", "d", "o", "w", "n">>
          [] l = "asciidoc" -> <<"a", "s", "c", "i", "i", "d", "o", "c">>
          [] l = "restructuredtext" -> <<"r", "e", "s", "t", "r", "u", "c", "t", "u", "r", "e", "d", "t", "e", "x", "t">>]

\* the values of previewMarkdown.languages the editor model is run with
LanguageSettings == {"markdown", "markdown, AsciiDoc"}

\* the values of previewMarkdown.languages the configuration model is run with
LanguageInputs ==
    LanguageSettings \cup {"", "rst", " RestructuredText ,foo", "asciidoc,,MARKDOWN", "mark down", "Markdown\t"}

\* the characters of each of these strings
CharsOf ==
    [str \in LanguageInputs |->
        CASE str = "markdown" ->
               <<"m", "a", "r", "k", "d", "o", "w", "n">>
          [] str = "markdown, AsciiDoc" ->
               <<"m", "a", "r", "k", "d", "o", "w", "n", ",", " ", "A", "s", "c", "i", "i", "D", "o", "c">>
          [] str = "" ->
               <<>>
          [] str = "rst" ->
               <<"r", "s", "t">>
          [] str = " RestructuredText ,foo" ->
               <<" ", "R", "e", "s", "t", "r", "u", "c", "t", "u", "r", "e", "d", "T", "e", "x", "t", " ", ",", "f", "o", "o">>
          [] str = "asciidoc,,MARKDOWN" ->
               <<"a", "s", "c", "i", "i", "d", "o", "c", ",", ",", "M", "A", "R", "K", "D", "O", "W", "N">>
          [] str = "mark down" ->
               <<"m", "a", "r", "k", " ", "d", "o", "w", "n">>
          [] str = "Markdown\t" ->
               <<"M", "a", "r", "k", "d", "o", "w", "n", "\t">>]

parseLanguages_noTrim(languagesStr) ==
    LET parsed == {l \in SupportedLanguages :
                      \E i \in 1..Len(Split(CharsOf[languagesStr], ",")) :
                          ToLowerCase(Split(CharsOf[languagesStr], ",")[i]) = LanguageName[l]}
    IN  IF parsed # {} THEN parsed ELSE {"markdown"}

parseLanguages(languagesStr) ==
    LET parsed == {l \in SupportedLanguages :
                      \E i \in 1..Len(Split(CharsOf[languagesStr], ",")) :
                          ToLowerCase(Trim(Split(CharsOf[languagesStr], ",")[i])) = LanguageName[l]}
    IN  IF parsed # {} THEN parsed ELSE {"markdown"}

\* parseLanguages of each value the setting takes, computed once
parsedLanguages == [str \in LanguageInputs |-> parseLanguages(str)]

BoolSettings ==
    {"enabled", "openPreviewToSide", "autoClosePreview", "openOnGitDiff",
     "previewOnlyMode", "preserveFocus"}

\* The settings of the section as the host stores them: the user (global)
\* layer and the workspace layer, each setting a set that is empty when the
\* layer does not define it.  The workspace layer wins.
NoLayer ==
    [enabled |-> {}, openPreviewToSide |-> {}, autoClosePreview |-> {},
     openOnGitDiff |-> {}, previewOnlyMode |-> {}, preserveFocus |-> {},
     languages |-> {}]

NoSettings == [user |-> NoLayer, ws |-> NoLayer]

\* WorkspaceConfiguration.get(key, defaultValue)
Get(s, key, defaultValue) ==
    IF s.ws[key] # {} THEN CHOOSE v \in s.ws[key] : TRUE
    ELSE IF s.user[key] # {} THEN CHOOSE v \in s.user[key] : TRUE
    ELSE defaultValue

loadConfig_openOnGitDiffOn(s) ==
    [enabled |-> Get(s, "enabled", TRUE),
     openPreviewToSide |-> Get(s, "openPreviewToSide", TRUE),
     autoClosePreview |-> Get(s, "autoClosePreview", TRUE),
     openOnGitDiff |-> Get(s, "openOnGitDiff", TRUE),
     previewOnlyMode |-> Get(s, "previewOnlyMode", FALSE),
     preserveFocus |-> Get(s, "preserveFocus", TRUE),
     languages |-> Get(s, "languages", "markdown")]

loadConfig(s) ==
    [enabled |-> Get(s, "enabled", TRUE),
     openPreviewToSide |-> Get(s, "openPreviewToSide", TRUE),
     autoClosePreview |-> Get(s, "autoClosePreview", TRUE),
     openOnGitDiff |-> Get(s, "openOnGitDiff", FALSE),
     previewOnlyMode |-> Get(s, "previewOnlyMode", FALSE),
     preserveFocus |-> Get(s, "preserveFocus", TRUE),
     languages |-> Get(s, "languages", "markdown")]

VARIABLES
    cfg,          \* ConfigManager._config
    enabledLanguages, \* ConfigManager._enabledLanguages
    settings,     \* the section's settings as the host stores them
    updates,      \* WorkspaceConfiguration.update calls not yet answered
    cfgLast,      \* what the last configuration step was and what it fired
    docsOpen,     \* workspace.textDocuments
    tabs,         \* window.tabGroups.all[g].tabs
    activeGroup,  \* window.tabGroups.activeTabGroup
    activeTab,    \* group.activeTab of each group
    opened,       \* PreviewManager._openedPreviews
    marker,       \* PreviewManager._previewOnlyClosedUris
    pending,      \* keys of PreviewManager._pendingOpens
    recent,       \* keys of TabTracker._lastProcessedClose younger than DEBOUNCE_MS
    ops,          \* the calls of openPreviewIfNeeded suspended at an await
    reqs,         \* tabGroups.close requests of closePreviewForFile not yet answered
    actTimer,     \* the timer of processExistingDocuments is armed
    disposed,     \* the extension was deactivated and its subscriptions disposed
    nEvents,      \* user/host events so far
    nCfg,         \* configuration changes so far
    workspace,    \* the documents that exist
    last,         \* what the last step was and what the extension did in it
    query,        \* the last query of TabTracker or DiffDetector and its answer
    openTimers    \* the timeouts of handleDocumentOpen, where time is followed

cfgVars == <<cfg, enabledLanguages, settings, updates, cfgLast>>
auxVars == <<query, openTimers>>

vars ==
    <<cfgVars, docsOpen, tabs, activeGroup, activeTab, opened, marker, pending,
      recent, ops, reqs, actTimer, disposed, nEvents, nCfg, workspace, last, auxVars>>

isLanguageEnabled(languageId) == languageId \in enabledLanguages

\* ---------------------------------------------------- the ConfigManager
\* c = [cfg, langs, fired]: the ConfigManager's fields while its listener
\* runs, and the snapshots onConfigChanged has fired in the step
CfgMem == [cfg |-> cfg, langs |-> enabledLanguages, fired |-> <<>>]

\* the body of the listener: reload, re-parse, fire
Reload_firesBeforeReload(c, snapshot) ==
    [cfg |-> snapshot,
     langs |-> parsedLanguages[snapshot.languages],
     fired |-> Append(c.fired, c.cfg)]

Reload(c, snapshot) ==
    [cfg |-> snapshot,
     langs |-> parsedLanguages[snapshot.languages],
     fired |-> Append(c.fired, snapshot)]

\* the listener the constructor registers with onDidChangeConfiguration;
\* affects is e.affectsConfiguration(CONFIG_SECTION), s the settings it reads
onDidChangeConfiguration(c, s, affects) ==
    IF affects THEN Reload(c, loadConfig(s)) ELSE c

\* the result of a configuration step: the settings, the ConfigManager's
\* fields and the log (before: the snapshot when the step began; for an
\* answered update, alone: nothing else has changed the settings since the
\* toggle was called)
CommitCfg(c, s, kind, key, affects, alone) ==
    /\ settings' = s
    /\ cfg' = c.cfg
    /\ enabledLanguages' = c.langs
    /\ cfgLast' = [kind |-> kind, key |-> key, affects |-> affects, fired |-> c.fired,
                   before |-> cfg, alone |-> alone]

\* The settings change to s and the host fires onDidChangeConfiguration.
SettingsChange(s, kind, key, affects, alone) ==
    \E c \in {onDidChangeConfiguration(CfgMem, s, affects)} :
        CommitCfg(c, s, kind, key, affects, alone)

\* -------------------------------------------------------- the host's view
\* h = [tabs, ag, at, docs]: the tab groups, the active group, each group's
\* active tab and the loaded documents, as a listener reads them
Host == [tabs |-> tabs, ag |-> activeGroup, at |-> activeTab, docs |-> docsOpen]

Range(s) == {s[i] : i \in 1..Len(s)}
HasTab(h, g, t) == t \in Range(h.tabs[g])
OpenRefs(h) == UNION {{Ref(g, t) : t \in Range(h.tabs[g])} : g \in Groups}

\* window.activeTextEditor: the editor of the active tab of the active group
\* (of the modified side when that tab is a diff editor)
ActiveEditorDoc(h) ==
    LET t == h.at[h.ag]
    IN  IF t.kind \in {"text", "diff"} THEN t.doc ELSE NoDoc

\* ------------------------------------------------------------ DiffDetector
isDiffEditor_anyGroup(h) == \E g \in Groups : h.at[g].kind = "diff"

isDiffEditor(h) ==
    LET activeTab_ == h.at[h.ag]
    IN  IF activeTab_ = NoTab THEN FALSE ELSE activeTab_.kind = "diff"

isDocumentInDiffView_modifiedOnly(h, d) ==
    \E g \in Groups : \E i \in 1..Len(h.tabs[g]) :
        /\ h.tabs[g][i].kind = "diff"
        /\ h.tabs[g][i].doc = d

isDocumentInDiffView(h, d) ==
    \E g \in Groups : \E i \in 1..Len(h.tabs[g]) :
        /\ h.tabs[g][i].kind = "diff"
        /\ \/ h.tabs[g][i].orig = d
           \/ h.tabs[g][i].doc = d

\* -------------------------------------------------------------- TabTracker
getExpectedPreviewLabel_fullPath(d) == PreviewPrefix \o FsPath[d]

getExpectedPreviewLabel(d) == PreviewPrefix \o BaseOf[d]

isSupported_caseSensitive(d) == Extname(FsPath[d]) \in DOMAIN FILE_EXTENSIONS

isSupported(d) == ExtOf[d] \in DOMAIN FILE_EXTENSIONS

getLanguageId(d) ==
    IF ExtOf[d] \in DOMAIN FILE_EXTENSIONS THEN FILE_EXTENSIONS[ExtOf[d]] ELSE Undefined

\* the tab test of findPreviewTab's loop body
MatchesPreview(t, d) ==
    /\ t.kind = "webview"
    /\ \/ TabLabel(t) = getExpectedPreviewLabel(d)
       \/ /\ TabViewType(t) = PREVIEW_VIEW_TYPES[getLanguageId(d)]
          /\ Includes(TabLabel(t), BaseOf[d])

\* the first matching tab, groups in order and tabs in order; NoTab when
\* there is none (undefined)
FirstOf(S) == IF S = {} THEN 0 ELSE CHOOSE i \in S : \A j \in S : i <= j

FirstMatchIn(h, g, d) ==
    FirstOf({i \in 1..Len(h.tabs[g]) : MatchesPreview(h.tabs[g][i], d)})

FirstMatch(h, g, d) ==
    IF g = 0 THEN Ref(0, NoTab) ELSE Ref(g, h.tabs[g][FirstMatchIn(h, g, d)])

findPreviewTab(h, d) ==
    IF getLanguageId(d) = Undefined THEN Ref(0, NoTab)
    ELSE FirstMatch(h, FirstOf({g \in Groups : FirstMatchIn(h, g, d) # 0}), d)

isPreviewOpen(h, d) == findPreviewTab(h, d).tab # NoTab

\* ---------------------------------------------------------- PreviewManager
isSupportedDocument(d) ==
    \/ LanguageIdOf[d] \in SupportedLanguages
    \/ ExtOf[d] \in DOMAIN FILE_EXTENSIONS

getLanguageIdOfDocument(d) ==
    IF LanguageIdOf[d] \in SupportedLanguages THEN LanguageIdOf[d]
    ELSE IF ExtOf[d] \in DOMAIN FILE_EXTENSIONS THEN FILE_EXTENSIONS[ExtOf[d]]
    ELSE Undefined

\* x = [opened, marker, pending, recent, ops, reqs, exec, close, done, calls,
\* rets, over]: the
\* extension's memory while the listeners of one step run.  exec collects the
\* executeCommand calls of the step, close the tabs whose closing the step
\* requests, over is set when the step needs more than MaxOps operations.
IdleOp ==
    [pc |-> "idle", doc |-> NoDoc, pom |-> FALSE, pf |-> FALSE, cmd |-> "",
     ae |-> NoDoc, avc |-> 0, refs |-> <<>>, stale |-> FALSE,
     replaced |-> {}, latest |-> FALSE]

Mem ==
    [opened |-> opened, marker |-> marker, pending |-> pending, recent |-> recent,
     ops |-> ops, reqs |-> reqs, exec |-> {}, close |-> {}, done |-> {},
     calls |-> <<>>, rets |-> {}, over |-> FALSE]

\* operation i returns: openPreviewIfNeeded has run to its end (ok) or into
\* its catch block
Finish(x, i, ok) ==
    [x EXCEPT !.ops[i] = IdleOp,
              !.done = @ \cup {[doc |-> x.ops[i].doc, pom |-> x.ops[i].pom,
                                pf |-> x.ops[i].pf,
                                replaced |-> x.ops[i].replaced,
                                latest |-> x.ops[i].latest, ok |-> ok]}]

FreeSlots(x) == {i \in 1..MaxOps : x.ops[i].pc = "idle"}
MinOf(S) == CHOOSE i \in S : \A j \in S : i <= j

\* handleDocumentOpen: the guards, then the timer of the key is (re-)armed
handleDocumentOpen(x, d) ==
    IF ~cfg.enabled THEN x
    ELSE IF ~isSupportedDocument(d) THEN x
    ELSE IF \/ getLanguageIdOfDocument(d) = Undefined
            \/ ~isLanguageEnabled(getLanguageIdOfDocument(d)) THEN x
    ELSE [x EXCEPT !.pending = @ \cup {d}]

\* the collection loop of closeAllMarkdownPreviews
previewViewTypes == {"markdown.preview", "asciidoc.preview", "restructuredtext.preview"}

IsPreviewLike(t) ==
    /\ t.kind = "webview"
    /\ \/ TabViewType(t) \in previewViewTypes
       \/ StartsWith(TabLabel(t), PreviewPrefix)

InGroup(g, seq) == [i \in 1..Len(seq) |-> Ref(g, seq[i])]

tabsToClose(h) ==
    InGroup(1, SelectSeq(h.tabs[1], IsPreviewLike))
        \o InGroup(2, SelectSeq(h.tabs[2], IsPreviewLike))

\* openPreviewIfNeeded from `this._openedPreviews.add(key)` on: operation i
\* starts for document d with the command, the tabs closeAllMarkdownPreviews
\* collected, and the active editor and view column (read only by the focus
\* restoration, so kept only for it)
\* replaced (the other documents whose previews closeAllMarkdownPreviews is
\* about to close) and latest (no open operation has started since) are kept
\* for stating properties; no guard reads them.
StartedOp(d, command, toClose, activeEditor, activeViewColumn) ==
    [pc |-> IF toClose # <<>> THEN "closeAll" ELSE "command",
     doc |-> d,
     pom |-> cfg.previewOnlyMode,
     pf |-> cfg.preserveFocus,
     cmd |-> command,
     ae |-> activeEditor,
     avc |-> IF activeEditor # NoDoc THEN activeViewColumn ELSE 0,
     refs |-> toClose,
     stale |-> FALSE,
     replaced |-> {toClose[k].tab.doc : k \in 1..Len(toClose)} \ {d},
     latest |-> TRUE]

StartOpen(x, d, i, command, toClose, activeEditor, activeViewColumn) ==
    [x EXCEPT !.opened = @ \cup {d},
              !.ops = [j \in 1..MaxOps |->
                          IF j = i THEN StartedOp(d, command, toClose, activeEditor,
                                                  activeViewColumn)
                          ELSE [x.ops[j] EXCEPT !.latest = FALSE]],
              !.close = @ \cup Range(toClose),
              !.exec = IF toClose = <<>> THEN @ \cup {[doc |-> d, cmd |-> command]}
                       ELSE @]

\* config.openPreviewToSide ? commands.toSide : commands.sameGroup
CommandFor_sameGroup(languageId) == PREVIEW_COMMANDS[languageId].sameGroup

CommandFor(languageId) ==
    IF cfg.openPreviewToSide THEN PREVIEW_COMMANDS[languageId].toSide
    ELSE PREVIEW_COMMANDS[languageId].sameGroup

\* openPreviewIfNeeded up to its first await that leaves the extension host:
\* with previews to close that is tabGroups.close(tabsToClose), otherwise it
\* is executeCommand
openPreviewIfNeeded(x, h, d) ==
    IF d \in x.opened THEN x
    ELSE IF ~cfg.previewOnlyMode /\ isPreviewOpen(h, d)
        THEN [x EXCEPT !.opened = @ \cup {d}]
    ELSE IF ~cfg.openOnGitDiff /\ isDiffEditor(h) THEN x
    ELSE IF ~cfg.openOnGitDiff /\ isDocumentInDiffView(h, d) THEN x
    ELSE IF getLanguageIdOfDocument(d) = Undefined THEN x
    ELSE IF FreeSlots(x) = {} THEN [x EXCEPT !.over = TRUE]
    ELSE StartOpen(x, d, MinOf(FreeSlots(x)),
                   CommandFor(getLanguageIdOfDocument(d)),
                   IF cfg.previewOnlyMode THEN tabsToClose(h) ELSE <<>>,
                   IF ~cfg.previewOnlyMode /\ cfg.preserveFocus
                   THEN ActiveEditorDoc(h) ELSE NoDoc,
                   h.ag)

\* closePreviewForFile up to its await: the debounce, then the close request.
\* calls logs each call of the step: the tab a lookup finds, the tab whose
\* closing the call attempts, and whether the call has returned false or
\* awaits the host's answer.
RequestClose(x, d, previewTab) ==
    IF previewTab.tab # NoTab
    THEN [x EXCEPT !.reqs = @ \cup {[uri |-> d, grp |-> previewTab.grp,
                                     tab |-> previewTab.tab, ok |-> TRUE]},
                   !.close = @ \cup {previewTab},
                   !.calls = Append(@, [doc |-> d, found |-> previewTab,
                                        attempt |-> previewTab, ret |-> "await"])]
    ELSE [x EXCEPT !.calls = Append(@, [doc |-> d, found |-> previewTab,
                                        attempt |-> NoRef, ret |-> "false"])]

Debounced(x, d, previewTab) ==
    [x EXCEPT !.calls = Append(@, [doc |-> d, found |-> previewTab,
                                   attempt |-> NoRef, ret |-> "false"])]

closePreviewForFile_noDebounce(x, h, d) ==
    RequestClose([x EXCEPT !.recent = @ \cup {d}], d, findPreviewTab(h, d))

closePreviewForFile(x, h, d) ==
    IF d \in x.recent THEN Debounced(x, d, findPreviewTab(h, d))
    ELSE RequestClose([x EXCEPT !.recent = @ \cup {d}], d, findPreviewTab(h, d))

\* closePreviewForFile after its await: what the call for request r returns
\* once the host has answered it (closed: tabGroups.close resolved; otherwise
\* it threw and the catch block returns false)
closePreviewForFileReturn_catchReturnsTrue(r, closed) ==
    [doc |-> r.uri, ref |-> Ref(r.grp, r.tab), val |-> TRUE, threw |-> FALSE]

closePreviewForFileReturn(r, closed) ==
    [doc |-> r.uri, ref |-> Ref(r.grp, r.tab), val |-> closed, threw |-> FALSE]

ProcessClosedTab_anyInput(x, h, closedTab) ==
    IF closedTab.doc \in Uris /\ isSupported(closedTab.doc)
    THEN IF closedTab.doc \in x.marker
         THEN [x EXCEPT !.marker = @ \ {closedTab.doc}]
         ELSE [closePreviewForFile(x, h, closedTab.doc) EXCEPT
                  !.opened = @ \ {closedTab.doc}]
    ELSE x

\* the body of the loop of handleTabChanges for one closed tab
ProcessClosedTab(x, h, closedTab) ==
    IF closedTab.kind = "text" /\ isSupported(closedTab.doc)
    THEN IF closedTab.doc \in x.marker
         THEN [x EXCEPT !.marker = @ \ {closedTab.doc}]
         ELSE [closePreviewForFile(x, h, closedTab.doc) EXCEPT
                  !.opened = @ \ {closedTab.doc}]
    ELSE x

\* the loop of handleTabChanges over event.closed
ProcessClosed(x, h, closed) ==
    LET after[n \in 0..Len(closed)] ==
            IF n = 0 THEN x ELSE ProcessClosedTab(after[n - 1], h, closed[n].tab)
    IN  after[Len(closed)]

\* handleTabChanges.  cleanupDebounceMap only drops entries older than ten
\* debounce periods, which recent does not hold, so the random cleanup
\* changes nothing here.
handleTabChanges_noAutoCloseGuard(x, h, closed) ==
    IF ~cfg.enabled THEN x
    ELSE ProcessClosed(x, h, closed)

handleTabChanges(x, h, closed) ==
    IF ~cfg.enabled \/ ~cfg.autoClosePreview THEN x
    ELSE ProcessClosed(x, h, closed)

handleEditorActivation_noPreviewOnlyGuard(x, h, d) ==
    IF ~cfg.enabled THEN x
    ELSE IF ~isSupportedDocument(d) THEN x
    ELSE IF \/ getLanguageIdOfDocument(d) = Undefined
            \/ ~isLanguageEnabled(getLanguageIdOfDocument(d)) THEN x
    ELSE IF d \in x.pending \/ d \in x.opened THEN x
    ELSE IF ~isPreviewOpen(h, d) THEN openPreviewIfNeeded(x, h, d)
    ELSE x

handleEditorActivation(x, h, d) ==
    IF ~cfg.enabled THEN x
    ELSE IF cfg.previewOnlyMode THEN x
    ELSE IF ~isSupportedDocument(d) THEN x
    ELSE IF \/ getLanguageIdOfDocument(d) = Undefined
            \/ ~isLanguageEnabled(getLanguageIdOfDocument(d)) THEN x
    ELSE IF d \in x.pending \/ d \in x.opened THEN x
    ELSE IF ~isPreviewOpen(h, d) THEN openPreviewIfNeeded(x, h, d)
    ELSE x

\* the loop of closeSourceEditor from group `from` on: the first text tab of
\* the document is asked to be closed and the function awaits the answer;
\* with no such tab the function, and with it the open operation, returns
CloseSourceIn(x, i, g) ==
    IF g = 0 THEN Finish(x, i, TRUE)
    ELSE [x EXCEPT !.ops[i].pc = "closeSrc",
                   !.ops[i].refs = <<Ref(g, TextTab(x.ops[i].doc))>>,
                   !.ops[i].stale = FALSE,
                   !.close = @ \cup {Ref(g, TextTab(x.ops[i].doc))}]

closeSourceEditorFrom(x, h, i, from) ==
    CloseSourceIn(x, i, FirstOf({g \in Groups :
                                    g >= from /\ HasTab(h, g, TextTab(x.ops[i].doc))}))

closeSourceEditor(x, h, i) ==
    closeSourceEditorFrom([x EXCEPT !.marker = @ \cup {x.ops[i].doc}], h, i, 1)

\* openPreviewForActiveEditor
ForceOpen(x, h, d) ==
    IF d # NoDoc /\ isSupportedDocument(d)
    THEN openPreviewIfNeeded([x EXCEPT !.opened = @ \ {d}], h, d)
    ELSE x

openPreviewForActiveEditor(x, h) == ForceOpen(x, h, ActiveEditorDoc(h))

\* ------------------------------------------------------------ host changes
\* The host closes the tabs R.  A group whose active tab went shows its last
\* remaining tab; an emptied active group hands the focus to the other one.
Remaining(h, R) ==
    [g \in Groups |-> LET Keep(t) == Ref(g, t) \notin R IN SelectSeq(h.tabs[g], Keep)]

Refocus(h, R, nt) ==
    [h EXCEPT !.tabs = nt,
              !.at = [g \in Groups |->
                         IF Ref(g, h.at[g]) \in R
                         THEN IF nt[g] = <<>> THEN NoTab ELSE nt[g][Len(nt[g])]
                         ELSE h.at[g]],
              !.ag = IF nt[h.ag] = <<>> /\ nt[OtherGroup(h.ag)] # <<>>
                     THEN OtherGroup(h.ag) ELSE h.ag]

Remove(h, R) == Refocus(h, R, Remaining(h, R))

\* The order of the tabs of a group, as far as the extension can tell: its
\* loops look at the webview tabs of a group in their order and at the text
\* and diff tabs one by one, so the text and diff tabs are kept in a fixed
\* order in front and the webview tabs behind them in the order they opened.
EditorTabs == <<TextTab("A"), TextTab("B"), TextTab("C"),
                DiffTab("A"), DiffTab("B"), DiffTab("C")>>

Place(seq, t) ==
    IF t.kind = "webview" THEN Append(seq, t)
    ELSE LET InFront(u) == u = t \/ u \in Range(seq)
             IsWebview(u) == u.kind = "webview"
         IN  SelectSeq(EditorTabs, InFront) \o SelectSeq(seq, IsWebview)

\* The host shows tab t in group g (opening it when it is not there) and
\* gives it the focus.
Show(h, g, t) ==
    [h EXCEPT !.tabs[g] = IF HasTab(h, g, t) THEN @ ELSE Place(@, t),
              !.at[g] = t,
              !.ag = g]

Load(h, d) == [h EXCEPT !.docs = @ \cup {d}]

\* A closed tab is gone for good: a request that still names it fails.
MarkStale(x, R) ==
    [x EXCEPT
        !.ops = [i \in 1..MaxOps |->
                    IF Range(x.ops[i].refs) \cap R # {}
                    THEN [x.ops[i] EXCEPT !.stale = TRUE] ELSE x.ops[i]],
        !.reqs = {IF Ref(r.grp, r.tab) \in R THEN [r EXCEPT !.ok = FALSE] ELSE r
                    : r \in x.reqs}]

\* window.activeTextEditor as an identity: document, view column, tab kind
ActiveEditor(h) ==
    IF ActiveEditorDoc(h) = NoDoc THEN <<>>
    ELSE <<ActiveEditorDoc(h), h.ag, h.at[h.ag].kind>>

\* registerEventListeners: the listeners that a change of the host from hOld
\* to hNew calls, in the order the host fires them.  A disposed extension has
\* no listeners.
onDidOpenTextDocument(x, newDoc) ==
    IF disposed \/ newDoc = NoDoc THEN x ELSE handleDocumentOpen(x, newDoc)

onDidChangeTabs(x, hNew, closed) ==
    IF disposed THEN x ELSE handleTabChanges(x, hNew, closed)

\* the listener ignores an undefined editor
onDidChangeActiveTextEditor(x, hOld, hNew, editor) ==
    IF ~disposed /\ ActiveEditor(hNew) # ActiveEditor(hOld) /\ editor # NoDoc
    THEN handleEditorActivation(x, hNew, editor)
    ELSE x

\* the step's result: the host's state, the extension's memory and the log
Commit(x, h, kind, d, r) ==
    /\ ~x.over
    /\ tabs' = h.tabs
    /\ activeGroup' = h.ag
    /\ activeTab' = h.at
    /\ docsOpen' = h.docs
    /\ opened' = x.opened
    /\ marker' = x.marker
    /\ pending' = x.pending
    /\ recent' = x.recent
    /\ ops' = x.ops
    /\ reqs' = x.reqs
    /\ last' = [kind |-> kind, doc |-> d, ref |-> r, exec |-> x.exec, close |-> x.close,
                done |-> x.done, calls |-> x.calls, rets |-> x.rets]

\* Events are counted, and the model follows the editor only until the
\* extension is disposed; the operations in flight then still run to their end.
Event == ~disposed /\ nEvents < MaxEvents /\ nEvents' = nEvents + 1

\* ------------------------------------------------------------------- Init
\* The extension has just been activated (activate, the constructors,
\* processExistingDocuments): no user settings, nothing tracked, the timer of
\* processExistingDocuments armed.  The editor is empty or shows the one
\* document whose opening activated the extension.
Workspaces == {{"A", "B"}, {"A", "C"}}

\* the ConfigManager's constructor
ConfigInit ==
    /\ cfg = loadConfig(settings)
    /\ enabledLanguages = parsedLanguages[cfg.languages]
    /\ updates = {}
    /\ nCfg = 0
    /\ cfgLast = [kind |-> "constructor", key |-> "", affects |-> FALSE, fired |-> <<>>,
                  before |-> cfg, alone |-> TRUE]

NoQuery == [fn |-> "none", uri |-> NoDoc, result |-> FALSE]

\* live: the timeouts set and neither fired nor cleared, with the ms left;
\* stored: the timeout _pendingOpens holds for each key (0: no entry);
\* events, calls: the open events delivered and the calls of
\* openPreviewIfNeeded its timers made, per document; single: every event
\* after the first came while the key's timer was pending; step: the last step
NoTimers ==
    [live |-> {}, stored |-> [d \in Docs |-> 0], nextId |-> 1,
     events |-> [d \in Docs |-> 0], calls |-> [d \in Docs |-> 0],
     single |-> [d \in Docs |-> TRUE],
     step |-> [kind |-> "none", uri |-> NoDoc, cleared |-> 0, set |-> 0]]

\* PreviewManager, TabTracker and DiffDetector as their constructors leave them
Constructed ==
    /\ opened = {}
    /\ marker = {}
    /\ pending = {}
    /\ recent = {}
    /\ ops = [i \in 1..MaxOps |-> IdleOp]
    /\ reqs = {}
    /\ actTimer = TRUE
    /\ disposed = FALSE
    /\ nEvents = 0
    /\ last = [kind |-> "Init", doc |-> NoDoc, ref |-> NoRef, exec |-> {}, close |-> {},
               done |-> {}, calls |-> <<>>, rets |-> {}]
    /\ query = NoQuery
    /\ openTimers = NoTimers

EditorInit ==
    /\ workspace \in Workspaces
    /\ \E d \in workspace \cup {NoDoc} :
        /\ docsOpen = IF d = NoDoc THEN {} ELSE {d}
        /\ tabs = [g \in Groups |-> IF g = 1 /\ d # NoDoc THEN <<TextTab(d)>> ELSE <<>>]
        /\ activeTab = [g \in Groups |-> IF g = 1 /\ d # NoDoc THEN TextTab(d) ELSE NoTab]
    /\ activeGroup = 1
    /\ Constructed

Init ==
    /\ settings = NoSettings
    /\ ConfigInit
    /\ EditorInit

\* ------------------------------------------------------- user/host events
\* A document is loaded without being shown (workspace.openTextDocument).
DocOpen(d) ==
    /\ Event
    /\ d \in workspace
    /\ d \notin docsOpen
    /\ \E hNew \in {Load(Host, d)} :
       \E y1 \in {onDidOpenTextDocument(Mem, d)} :
       \E y2 \in {onDidChangeTabs(y1, hNew, <<>>)} :
       \E editor \in {ActiveEditorDoc(hNew)} :
       \E x \in {onDidChangeActiveTextEditor(y2, Host, hNew, editor)} :
           Commit(x, hNew, "DocOpen", d, NoRef)
    /\ UNCHANGED <<cfgVars, auxVars, actTimer, disposed, nCfg, workspace>>

\* The user opens document d in group g, or switches to its tab.
ShowDoc(d, g) ==
    /\ Event
    /\ d \in workspace
    /\ ~(activeGroup = g /\ activeTab[g] = TextTab(d))
    /\ \E hNew \in {Show(Load(Host, d), g, TextTab(d))} :
       \E y1 \in {onDidOpenTextDocument(Mem, IF d \in docsOpen THEN NoDoc ELSE d)} :
       \E y2 \in {onDidChangeTabs(y1, hNew, <<>>)} :
       \E editor \in {ActiveEditorDoc(hNew)} :
       \E x \in {onDidChangeActiveTextEditor(y2, Host, hNew, editor)} :
           Commit(x, hNew, "ShowDoc", d, Ref(g, TextTab(d)))
    /\ UNCHANGED <<cfgVars, auxVars, actTimer, disposed, nCfg, workspace>>

\* The user opens the diff editor of document d in the active group.
OpenDiff(d) ==
    /\ Event
    /\ d \in workspace
    /\ ~isDocumentInDiffView(Host, d)
    /\ \E hNew \in {Show(Load(Host, d), activeGroup, DiffTab(d))} :
       \E y1 \in {onDidOpenTextDocument(Mem, IF d \in docsOpen THEN NoDoc ELSE d)} :
       \E y2 \in {onDidChangeTabs(y1, hNew, <<>>)} :
       \E editor \in {ActiveEditorDoc(hNew)} :
       \E x \in {onDidChangeActiveTextEditor(y2, Host, hNew, editor)} :
           Commit(x, hNew, "OpenDiff", d, Ref(activeGroup, DiffTab(d)))
    /\ UNCHANGED <<cfgVars, auxVars, actTimer, disposed, nCfg, workspace>>

\* The user closes a tab.
UserCloseTab(g, t) ==
    /\ Event
    /\ HasTab(Host, g, t)
    /\ \E hNew \in {Remove(Host, {Ref(g, t)})} :
       \E x0 \in {MarkStale(Mem, {Ref(g, t)})} :
       \E y2 \in {onDidChangeTabs(x0, hNew, <<Ref(g, t)>>)} :
       \E editor \in {ActiveEditorDoc(hNew)} :
       \E x \in {onDidChangeActiveTextEditor(y2, Host, hNew, editor)} :
           Commit(x, hNew, "UserCloseTab", t.doc, Ref(g, t))
    /\ UNCHANGED <<cfgVars, auxVars, actTimer, disposed, nCfg, workspace>>

\* The host disposes a document that no editor shows any more; the
\* onDidCloseTextDocument listener forgets it.
DocClose(d) ==
    /\ Event
    /\ d \in docsOpen
    /\ \A r \in OpenRefs(Host) : ~(r.tab.kind \in {"text", "diff"} /\ r.tab.doc = d)
    /\ \E hNew \in {[Host EXCEPT !.docs = @ \ {d}]} :
       \E x \in {[Mem EXCEPT !.opened = @ \ {d}]} :
           Commit(x, hNew, "DocClose", d, NoRef)
    /\ UNCHANGED <<cfgVars, auxVars, actTimer, disposed, nCfg, workspace>>

\* The user changes a setting of the section in the user settings:
\* onDidChangeConfiguration affecting the section, the snapshot is reloaded.
ConfigChange ==
    /\ ~disposed
    /\ nCfg < MaxCfg
    /\ nCfg' = nCfg + 1
    /\ \/ \E k \in BoolSettings :
            SettingsChange([settings EXCEPT !.user[k] = {~cfg[k]}],
                           "ConfigChange", k, TRUE, TRUE)
       \/ \E l \in LanguageSettings \ {cfg.languages} :
            SettingsChange([settings EXCEPT !.user.languages = {l}],
                           "ConfigChange", "languages", TRUE, TRUE)
    /\ \E x \in {Mem} : \E h \in {Host} : Commit(x, h, "ConfigChange", NoDoc, NoRef)
    /\ UNCHANGED <<updates, auxVars, actTimer, disposed, nEvents, workspace>>

\* deactivate, then the subscriptions are disposed: PreviewManager.dispose
\* and TabTracker.dispose
Dispose ==
    /\ Event
    /\ disposed' = TRUE
    /\ \E x \in {[Mem EXCEPT !.pending = {}, !.opened = {}, !.marker = {}, !.recent = {}]} :
       \E h \in {Host} : Commit(x, h, "Dispose", NoDoc, NoRef)
    /\ UNCHANGED <<cfgVars, auxVars, actTimer, nCfg, workspace>>

\* ------------------------------------------------- timers and host answers
\* The 50 ms timer of handleDocumentOpen fires.
OpenTimer_rearms(d) ==
    /\ d \in pending
    /\ \E h \in {Host} :
       \E x \in {openPreviewIfNeeded(Mem, h, d)} :
           Commit(x, h, "OpenTimer", d, NoRef)
    /\ UNCHANGED <<cfgVars, auxVars, actTimer, disposed, nEvents, nCfg, workspace>>

OpenTimer(d) ==
    /\ d \in pending
    /\ \E h \in {Host} :
       \E x0 \in {[Mem EXCEPT !.pending = @ \ {d}]} :
       \E x \in {openPreviewIfNeeded(x0, h, d)} :
           Commit(x, h, "OpenTimer", d, NoRef)
    /\ UNCHANGED <<cfgVars, auxVars, actTimer, disposed, nEvents, nCfg, workspace>>

\* The 100 ms timer of processExistingDocuments fires; after deactivate the
\* previewManager reference is undefined and the callback does nothing.
supportedLanguages == {"markdown", "asciidoc", "restructuredtext"}

processExistingDocuments ==
    /\ actTimer
    /\ actTimer' = FALSE
    /\ \E h \in {Host} : \E x0 \in {Mem} : \E d \in {ActiveEditorDoc(h)} :
       \E x \in {IF ~disposed /\ d # NoDoc /\ LanguageIdOf[d] \in supportedLanguages
                 THEN openPreviewForActiveEditor(x0, h)
                 ELSE x0} :
           Commit(x, h, "processExistingDocuments", d, NoRef)
    /\ UNCHANGED <<cfgVars, auxVars, disposed, nEvents, nCfg, workspace>>

\* DEBOUNCE_MS have passed since closePreviewForFile last processed d.
DebounceElapsed(d) ==
    /\ d \in recent
    /\ \E x \in {[Mem EXCEPT !.recent = @ \ {d}]} : \E h \in {Host} :
           Commit(x, h, "DebounceElapsed", d, NoRef)
    /\ UNCHANGED <<cfgVars, auxVars, actTimer, disposed, nEvents, nCfg, workspace>>

\* openPreviewIfNeeded from executeCommand on, entered when the await of
\* closeAllMarkdownPreviews returns
ExecuteCommand(x, i) ==
    [x EXCEPT !.ops[i].pc = "command",
              !.ops[i].refs = <<>>,
              !.ops[i].stale = FALSE,
              !.exec = @ \cup {[doc |-> x.ops[i].doc, cmd |-> x.ops[i].cmd]}]

\* The host answers tabGroups.close(tabsToClose) of closeAllMarkdownPreviews:
\* it closes the tabs, or the call throws because one of them is gone and the
\* catch swallows it.  Then the preview command is executed.
HostCloseAll(i) ==
    /\ ops[i].pc = "closeAll"
    /\ \E R \in {IF ops[i].stale THEN {} ELSE Range(ops[i].refs)} :
       \E hNew \in {Remove(Host, R)} :
       \E x0 \in {MarkStale(Mem, R)} :
       \E y2 \in {IF ops[i].stale THEN x0 ELSE onDidChangeTabs(x0, hNew, ops[i].refs)} :
       \E editor \in {ActiveEditorDoc(hNew)} :
       \E x1 \in {onDidChangeActiveTextEditor(y2, Host, hNew, editor)} :
       \E x \in {ExecuteCommand(x1, i)} :
           Commit(x, hNew, "HostCloseAll", ops[i].doc, NoRef)
    /\ UNCHANGED <<cfgVars, auxVars, actTimer, disposed, nEvents, nCfg, workspace>>

\* the preview tab of document d, wherever it is
PreviewRefs(h, d) == {r \in OpenRefs(h) : r.tab.kind = "webview" /\ r.tab.doc = d}

AfterCommand_liveConfig(x, h, i) ==
    IF cfg.previewOnlyMode THEN closeSourceEditor(x, h, i)
    ELSE IF cfg.preserveFocus /\ x.ops[i].ae # NoDoc /\ x.ops[i].avc # 0
        THEN [x EXCEPT !.ops[i].pc = "delay"]
    ELSE Finish(x, i, TRUE)

\* openPreviewIfNeeded after executeCommand returned
AfterCommand(x, h, i) ==
    IF x.ops[i].pom THEN closeSourceEditor(x, h, i)
    ELSE IF x.ops[i].pf /\ x.ops[i].ae # NoDoc /\ x.ops[i].avc # 0
        THEN [x EXCEPT !.ops[i].pc = "delay"]
    ELSE Finish(x, i, TRUE)

\* where the host shows the preview of document d for the command cmd: the
\* preview that is already open, else a new one beside the active group
\* (toSide) or in it
ShowPreview(h, d, cmd, pom) ==
    IF PreviewRefs(h, d) # {}
    THEN LET r == CHOOSE r \in PreviewRefs(h, d) : TRUE IN Show(h, r.grp, r.tab)
    ELSE IF cmd = PREVIEW_COMMANDS[getLanguageIdOfDocument(d)].toSide
        THEN Show(h, OtherGroup(h.ag), Tab("webview", d, pom))
    ELSE Show(h, h.ag, Tab("webview", d, pom))

\* The preview command succeeds: the preview of the document is shown and
\* takes the focus.
HostCommandDone(i) ==
    /\ ops[i].pc = "command"
    /\ \E hNew \in {ShowPreview(Host, ops[i].doc, ops[i].cmd, ops[i].pom)} :
       \E y2 \in {onDidChangeTabs(Mem, hNew, <<>>)} :
       \E editor \in {ActiveEditorDoc(hNew)} :
       \E x1 \in {onDidChangeActiveTextEditor(y2, Host, hNew, editor)} :
       \E x \in {AfterCommand(x1, hNew, i)} :
           Commit(x, hNew, "HostCommandDone", ops[i].doc, NoRef)
    /\ UNCHANGED <<cfgVars, auxVars, actTimer, disposed, nEvents, nCfg, workspace>>

\* the catch block of openPreviewIfNeeded: _openedPreviews.delete(key), then
\* the failure is logged
Catch_keepsKey(x, d) == x

Catch(x, d) == [x EXCEPT !.opened = @ \ {d}]

\* The preview command throws (the preview extension of the language is not
\* installed): the catch block forgets the document.
HostCommandFailed(i) ==
    /\ ops[i].pc = "command"
    /\ getLanguageIdOfDocument(ops[i].doc) # "markdown"
    /\ \E x \in {Finish(Catch(Mem, ops[i].doc), i, FALSE)} :
       \E h \in {Host} :
           Commit(x, h, "HostCommandFailed", ops[i].doc, NoRef)
    /\ UNCHANGED <<cfgVars, auxVars, actTimer, disposed, nEvents, nCfg, workspace>>

\* The host answers tabGroups.close(tab) of closeSourceEditor: the tab is
\* closed and the function returns.
HostCloseSource(i) ==
    /\ ops[i].pc = "closeSrc"
    /\ ~ops[i].stale
    /\ \E r \in {ops[i].refs[1]} :
       \E hNew \in {Remove(Host, {r})} :
       \E x0 \in {MarkStale(Finish(Mem, i, TRUE), {r})} :
       \E y2 \in {onDidChangeTabs(x0, hNew, <<r>>)} :
       \E editor \in {ActiveEditorDoc(hNew)} :
       \E x \in {onDidChangeActiveTextEditor(y2, Host, hNew, editor)} :
           Commit(x, hNew, "HostCloseSource", ops[i].doc, r)
    /\ UNCHANGED <<cfgVars, auxVars, actTimer, disposed, nEvents, nCfg, workspace>>

\* tabGroups.close(tab) of closeSourceEditor throws because the tab is gone:
\* the catch takes the marker back and the loop goes on with the next groups.
HostCloseSourceFailed(i) ==
    /\ ops[i].pc = "closeSrc"
    /\ ops[i].stale
    /\ \E r \in {ops[i].refs[1]} : \E h \in {Host} :
       \E x0 \in {[Mem EXCEPT !.marker = @ \ {ops[i].doc}]} :
       \E x \in {closeSourceEditorFrom(x0, h, i, r.grp + 1)} :
           Commit(x, h, "HostCloseSourceFailed", ops[i].doc, r)
    /\ UNCHANGED <<cfgVars, auxVars, actTimer, disposed, nEvents, nCfg, workspace>>

\* delay(50) has passed, showTextDocument(activeEditor.document,
\* activeViewColumn) was called and the host answers it.
HostShowDoc(i) ==
    /\ ops[i].pc = "delay"
    /\ \E d \in {ops[i].ae} : \E g \in {ops[i].avc} :
       \E hNew \in {Show(Load(Host, d), g, TextTab(d))} :
       \E x0 \in {Finish(Mem, i, TRUE)} :
       \E y1 \in {onDidOpenTextDocument(x0, IF d \in docsOpen THEN NoDoc ELSE d)} :
       \E y2 \in {onDidChangeTabs(y1, hNew, <<>>)} :
       \E editor \in {ActiveEditorDoc(hNew)} :
       \E x \in {onDidChangeActiveTextEditor(y2, Host, hNew, editor)} :
           Commit(x, hNew, "HostShowDoc", d, Ref(g, TextTab(d)))
    /\ UNCHANGED <<cfgVars, auxVars, actTimer, disposed, nEvents, nCfg, workspace>>

\* The host answers tabGroups.close(previewTab) of closePreviewForFile: the
\* tab is closed, or the call throws because the tab is gone and the catch
\* swallows it.
HostClosePreview(r) ==
    /\ r \in reqs
    /\ \E R \in {IF r.ok THEN {Ref(r.grp, r.tab)} ELSE {}} :
       \E hNew \in {Remove(Host, R)} :
       \E x0 \in {MarkStale([Mem EXCEPT !.reqs = @ \ {r},
                                        !.rets = {closePreviewForFileReturn(r, r.ok)}], R)} :
       \E y2 \in {IF r.ok THEN onDidChangeTabs(x0, hNew, <<Ref(r.grp, r.tab)>>) ELSE x0} :
       \E editor \in {ActiveEditorDoc(hNew)} :
       \E x \in {onDidChangeActiveTextEditor(y2, Host, hNew, editor)} :
           Commit(x, hNew, IF r.ok THEN "HostClosePreview" ELSE "HostClosePreviewFailed",
                  r.tab.doc, Ref(r.grp, r.tab))
    /\ UNCHANGED <<cfgVars, auxVars, actTimer, disposed, nEvents, nCfg, workspace>>

\* ------------------------------------------------------------------- Next
AllTabs ==
    {TextTab(d) : d \in Docs} \cup {DiffTab(d) : d \in Docs}
        \cup {Tab("webview", d, p) : d \in Docs, p \in BOOLEAN}

UserStep ==
    \/ \E d \in Docs : DocOpen(d)
    \/ \E d \in Docs, g \in Groups : ShowDoc(d, g)
    \/ \E d \in Docs : OpenDiff(d)
    \/ \E g \in Groups, t \in AllTabs : UserCloseTab(g, t)
    \/ \E d \in Docs : DocClose(d)
    \/ ConfigChange
    \/ Dispose

TimerStep ==
    \/ \E d \in Docs : OpenTimer(d)
    \/ processExistingDocuments
    \/ \E d \in Docs : DebounceElapsed(d)

HostStep ==
    \/ \E i \in 1..MaxOps : HostCloseAll(i)
    \/ \E i \in 1..MaxOps : HostCommandDone(i)
    \/ \E i \in 1..MaxOps : HostCommandFailed(i)
    \/ \E i \in 1..MaxOps : HostCloseSource(i)
    \/ \E i \in 1..MaxOps : HostCloseSourceFailed(i)
    \/ \E i \in 1..MaxOps : HostShowDoc(i)
    \/ \E r \in reqs : HostClosePreview(r)

Next == UserStep \/ TimerStep \/ HostStep

Spec == Init /\ [][Next]_vars

\* Armed timers fire and the host answers every request.
FairSpec == Spec /\ WF_vars(TimerStep) /\ WF_vars(HostStep)

\* ------------------------------------------------ the configuration model
\* The ConfigManager on its own: the editor stays as it is, the settings the
\* extension starts with are any with at most one setting defined in each
\* layer, and the user edits the settings files, runs the two toggle
\* commands and changes settings of other sections.
MaxCfgSteps == 2

editorVars ==
    <<docsOpen, tabs, activeGroup, activeTab, opened, marker, pending, recent, ops,
      reqs, actTimer, disposed, nEvents, workspace, last, auxVars>>

SettingKeys == BoolSettings \cup {"languages"}

SettingValues(key) == IF key = "languages" THEN LanguageInputs ELSE BOOLEAN

Layers ==
    {NoLayer} \cup
    UNION {{[NoLayer EXCEPT ![key] = {v}] : v \in SettingValues(key)} : key \in SettingKeys}

CfgInit ==
    /\ settings \in [user : Layers, ws : Layers]
    /\ ConfigInit
    /\ EditorInit
    /\ workspace = {"A", "B"}
    /\ docsOpen = {}

\* another change of the settings happened while an update was in flight
Others(us) == {[u EXCEPT !.alone = FALSE] : u \in us}

\* The user edits a settings file: the setting is given a value or removed.
UserEdit(layer, key, V) ==
    /\ nCfg < MaxCfgSteps
    /\ nCfg' = nCfg + 1
    /\ V # settings[layer][key]
    /\ SettingsChange([settings EXCEPT ![layer][key] = V], "UserEdit", key, TRUE, TRUE)
    /\ updates' = Others(updates)
    /\ UNCHANGED editorVars

\* A setting of another section changes: the event does not affect the
\* section.
OtherSectionChange ==
    /\ nCfg < MaxCfgSteps
    /\ nCfg' = nCfg + 1
    /\ SettingsChange(settings, "OtherSectionChange", "", FALSE, TRUE)
    /\ UNCHANGED <<updates, editorVars>>

\* toggleEnabled and togglePreviewOnlyMode up to their await: the current
\* value is read from the settings and its negation is written to the user
\* (global) layer
Toggle(key, defaultValue, kind) ==
    /\ nCfg < MaxCfgSteps
    /\ nCfg' = nCfg + 1
    /\ updates' = updates \cup {[key |-> key, value |-> ~Get(settings, key, defaultValue),
                                 alone |-> TRUE]}
    /\ cfgLast' = [kind |-> kind, key |-> key, affects |-> FALSE, fired |-> <<>>,
                   before |-> cfg, alone |-> TRUE]
    /\ UNCHANGED <<cfg, enabledLanguages, settings, editorVars>>

toggleEnabled == Toggle("enabled", TRUE, "toggleEnabled")

togglePreviewOnlyMode == Toggle("previewOnlyMode", FALSE, "togglePreviewOnlyMode")

\* The host answers config.update(key, value, ConfigurationTarget.Global):
\* the user layer is written, the change event is fired when the layer has
\* changed, and the call returns.
HostConfigUpdate(u) ==
    /\ u \in updates
    /\ updates' = Others(updates \ {u})
    /\ SettingsChange([settings EXCEPT !.user[u.key] = {u.value}], "HostConfigUpdate",
                      u.key, settings.user[u.key] # {u.value}, u.alone)
    /\ UNCHANGED <<nCfg, editorVars>>

CfgNext ==
    \/ \E layer \in {"user", "ws"}, key \in SettingKeys :
          \E V \in {{}} \cup {{v} : v \in SettingValues(key)} : UserEdit(layer, key, V)
    \/ OtherSectionChange
    \/ toggleEnabled
    \/ togglePreviewOnlyMode
    \/ \E u \in updates : HostConfigUpdate(u)

CfgSpec == CfgInit /\ [][CfgNext]_vars

\* ------------------------------------------------- queries of the trackers
\* The tab layouts the queries are asked about: up to MaxTabs tabs in the
\* first group and at most one in the second, any tab of a group its active one.
MaxTabs == 2

LayoutTabs ==
    {TextTab("A"), TextTab("K"), DiffTab("A"), DiffOf("A", "B"), DiffOf("C", "K"),
     Tab("webview", "A", FALSE), Tab("webview", "C", FALSE), Tab("webview", "P", FALSE)}

SideTabs == {TextTab("B"), DiffTab("C"), Tab("webview", "B", FALSE)}

Layouts ==
    {<<>>} \cup {<<t>> : t \in LayoutTabs}
           \cup {<<t, u>> : t \in LayoutTabs, u \in {TextTab("A"), DiffOf("A", "B")}}

ActiveOf(ts) == IF ts = <<>> THEN {NoTab} ELSE Range(ts)

QueryInit ==
    /\ settings = NoSettings
    /\ ConfigInit
    /\ workspace = Docs
    /\ \E l1 \in Layouts : \E l2 \in {<<>>} \cup {<<t>> : t \in SideTabs} :
        /\ Len(l1) <= MaxTabs
        /\ tabs = [g \in Groups |-> IF g = 1 THEN l1 ELSE l2]
        /\ docsOpen = {t.doc : t \in {u \in Range(l1) \cup Range(l2) : u.kind # "webview"}}
                          \cap Docs
        /\ \E a1 \in ActiveOf(l1) : \E a2 \in ActiveOf(l2) :
               activeTab = [g \in Groups |-> IF g = 1 THEN a1 ELSE a2]
    /\ activeGroup \in Groups
    /\ Constructed

Answer(fn, u, r) ==
    /\ query' = [fn |-> fn, uri |-> u, result |-> r]
    /\ UNCHANGED <<cfgVars, docsOpen, tabs, activeGroup, activeTab, opened, marker,
                   pending, recent, ops, reqs, actTimer, disposed, nEvents, nCfg,
                   workspace, last, openTimers>>

AskExpectedPreviewLabel(u) ==
    /\ ~disposed
    /\ Answer("getExpectedPreviewLabel", u, getExpectedPreviewLabel(u))

AskIsSupported(u) ==
    /\ ~disposed
    /\ Answer("isSupported", u, isSupported(u))

AskLanguageId(u) ==
    /\ ~disposed
    /\ Answer("getLanguageId", u, getLanguageId(u))

AskIsDiffEditor ==
    /\ ~disposed
    /\ Answer("isDiffEditor", NoDoc, isDiffEditor(Host))

AskIsDocumentInDiffView(u) ==
    /\ ~disposed
    /\ Answer("isDocumentInDiffView", u, isDocumentInDiffView(Host, u))

AskFindPreviewTab(u) ==
    /\ ~disposed
    /\ Answer("findPreviewTab", u, findPreviewTab(Host, u))

AskIsPreviewOpen(u) ==
    /\ ~disposed
    /\ Answer("isPreviewOpen", u, isPreviewOpen(Host, u))

QueryNext ==
    \/ \E u \in Uris : AskExpectedPreviewLabel(u)
    \/ \E u \in Uris : AskIsSupported(u)
    \/ \E u \in Uris : AskLanguageId(u)
    \/ AskIsDiffEditor
    \/ \E u \in Uris : AskIsDocumentInDiffView(u)
    \/ \E u \in Uris : AskFindPreviewTab(u)
    \/ \E u \in Uris : AskIsPreviewOpen(u)

QuerySpec == QueryInit /\ [][QueryNext]_vars

\* ------------------------------------------------- the open debounce, timed
\* Time advances in ticks of TickMs; at most MaxOpenEvents open events are
\* delivered.  A timeout that is due fires before time advances further.
OPEN_DEBOUNCE_MS == 50
TickMs == 10
MaxOpenEvents == 3

DebounceInit ==
    /\ settings = NoSettings
    /\ ConfigInit
    /\ EditorInit

\* clearTimeout(existing)
ClearTimeout_keeps(live, id) == live

ClearTimeout(live, id) == {t \in live : t.id # id}

\* handleDocumentOpen passes its guards for d
Arms(d) == d \in handleDocumentOpen([Mem EXCEPT !.pending = {}], d).pending

\* handleDocumentOpen from `const key` on: clearTimeout of the stored
\* timeout, setTimeout, _pendingOpens.set
SetTimeout(T, d) ==
    [T EXCEPT !.live = ClearTimeout(@, T.stored[d])
                          \cup {[uri |-> d, id |-> T.nextId, left |-> OPEN_DEBOUNCE_MS]},
              !.stored[d] = T.nextId,
              !.nextId = @ + 1,
              !.step.cleared = T.stored[d],
              !.step.set = T.nextId]

\* the open events delivered so far
OpenEvents ==
    openTimers.events["A"] + openTimers.events["B"] + openTimers.events["C"]

\* The host fires onDidOpenTextDocument for d.
DocumentOpened(d) ==
    /\ ~disposed
    /\ d \in workspace
    /\ OpenEvents < MaxOpenEvents
    /\ \E T \in {[openTimers EXCEPT
                      !.events[d] = @ + 1,
                      !.single[d] = @ /\ (openTimers.events[d] = 0 \/ d \in pending),
                      !.step = [kind |-> "open", uri |-> d, cleared |-> 0, set |-> 0]]} :
          openTimers' = IF Arms(d) THEN SetTimeout(T, d) ELSE T
    /\ \E hNew \in {Load(Host, d)} :
       \E x \in {onDidOpenTextDocument(Mem, d)} :
           Commit(x, hNew, "DocOpen", d, NoRef)
    /\ UNCHANGED <<cfgVars, query, actTimer, disposed, nEvents, nCfg, workspace>>

\* The timeout t is due: its callback deletes the key from _pendingOpens and
\* calls openPreviewIfNeeded.
Timeout(t) ==
    /\ t \in openTimers.live
    /\ t.left = 0
    /\ openTimers' = [openTimers EXCEPT
                         !.live = @ \ {t},
                         !.stored[t.uri] = 0,
                         !.calls[t.uri] = @ + 1,
                         !.step = [kind |-> "timeout", uri |-> t.uri, cleared |-> 0,
                                   set |-> 0]]
    /\ \E h \in {Host} :
       \E x0 \in {[Mem EXCEPT !.pending = @ \ {t.uri}]} :
       \E x \in {openPreviewIfNeeded(x0, h, t.uri)} :
           Commit(x, h, "OpenTimer", t.uri, NoRef)
    /\ UNCHANGED <<cfgVars, query, actTimer, disposed, nEvents, nCfg, workspace>>

\* TickMs pass.
Tick ==
    /\ openTimers.live # {}
    /\ \A t \in openTimers.live : t.left >= TickMs
    /\ openTimers' = [openTimers EXCEPT
                         !.live = {[t EXCEPT !.left = @ - TickMs] : t \in @},
                         !.step = [kind |-> "tick", uri |-> NoDoc, cleared |-> 0,
                                   set |-> 0]]
    /\ UNCHANGED <<cfgVars, query, docsOpen, tabs, activeGroup, activeTab, opened,
                   marker, pending, recent, ops, reqs, actTimer, disposed, nEvents,
                   nCfg, workspace, last>>

DebounceNext ==
    \/ \E d \in Docs : DocumentOpened(d)
    \/ \E t \in openTimers.live : Timeout(t)
    \/ Tick

DebounceSpec == DebounceInit /\ [][DebounceNext]_vars

\* ------------------------------------------------ the tab-change listener
\* The tab-change event on its own: a session in which some previews are
\* tracked and a source tab may be marked as closed by preview-only mode; one
\* step is one onDidChangeTabs event that reports up to two closed tabs.
TabEventInit ==
    /\ settings = NoSettings
    /\ ConfigInit
    /\ workspace = Docs
    /\ \E l1 \in Layouts : \E l2 \in {<<>>} \cup {<<t>> : t \in SideTabs} :
        /\ Len(l1) <= MaxTabs
        /\ tabs = [g \in Groups |-> IF g = 1 THEN l1 ELSE l2]
        /\ docsOpen = {t.doc : t \in {u \in Range(l1) \cup Range(l2) : u.kind # "webview"}}
                          \cap Docs
        /\ \E a1 \in ActiveOf(l1) : \E a2 \in ActiveOf(l2) :
               activeTab = [g \in Groups |-> IF g = 1 THEN a1 ELSE a2]
    /\ activeGroup = 1
    /\ opened \in SUBSET {"A", "C"}
    /\ marker \in SUBSET {"A"}
    /\ pending = {}
    /\ recent = {}
    /\ ops = [i \in 1..MaxOps |-> IdleOp]
    /\ reqs = {}
    /\ actTimer = FALSE
    /\ disposed = FALSE
    /\ nEvents = 0
    /\ last = [kind |-> "Init", doc |-> NoDoc, ref |-> NoRef, exec |-> {}, close |-> {},
               done |-> {}, calls |-> <<>>, rets |-> {}]
    /\ query = NoQuery
    /\ openTimers = NoTimers

ClosedLists(h) ==
    {<<r>> : r \in OpenRefs(h)}
        \cup {c \in {<<r, q>> : r \in OpenRefs(h), q \in OpenRefs(h)} : c[1] # c[2]}

\* onDidChangeTabs fires with event.closed = closed
TabsClosed(closed) ==
    /\ Event
    /\ \E hNew \in {Remove(Host, Range(closed))} :
       \E x0 \in {MarkStale(Mem, Range(closed))} :
       \E x \in {onDidChangeTabs(x0, hNew, closed)} :
           Commit(x, hNew, "TabsClosed", closed[1].tab.doc, closed[1])
    /\ UNCHANGED <<cfgVars, auxVars, actTimer, disposed, nCfg, workspace>>

TabEventNext == \E closed \in ClosedLists(Host) : TabsClosed(closed)

TabEventSpec == TabEventInit /\ [][TabEventNext]_vars

\* ------------------------------------------------- a session already going
\* The state the editor is in after Init (A shown), the user opening A in
\* the second group as well, the preview command answered and the focus
\* restored: A in both groups, its preview beside it, A tracked.  The count
\* of events starts again from here.
SessionInit ==
    /\ settings = NoSettings
    /\ ConfigInit
    /\ workspace \in Workspaces
    /\ docsOpen = {"A"}
    /\ tabs = <<<<TextTab("A"), Tab("webview", "A", FALSE)>>, <<TextTab("A")>>>>
    /\ activeTab = <<Tab("webview", "A", FALSE), TextTab("A")>>
    /\ activeGroup = 2
    /\ opened = {"A"}
    /\ marker = {}
    /\ pending = {}
    /\ recent = {}
    /\ ops = [i \in 1..MaxOps |-> IdleOp]
    /\ reqs = {}
    /\ actTimer = TRUE
    /\ disposed = FALSE
    /\ nEvents = 0
    /\ last = [kind |-> "HostShowDoc", doc |-> "A", ref |-> Ref(2, TextTab("A")),
               exec |-> {}, close |-> {},
               done |-> {[doc |-> "A", pom |-> FALSE, pf |-> TRUE, replaced |-> {},
                          latest |-> TRUE, ok |-> TRUE]},
               calls |-> <<>>, rets |-> {}]
    /\ query = NoQuery
    /\ openTimers = NoTimers

SessionSpec == SessionInit /\ [][Next]_vars

\* ------------------------------------------------------------- properties
\* the documents the last step executed a preview command for
ExecDocs == {e.doc : e \in last.exec}

\* the preview tabs the last step asked the host to close
ClosedPreviews == {r \in last.close : r.tab.kind = "webview"}

AllIdle == \A i \in 1..MaxOps : ops[i].pc = "idle"

\* the preview of document d is about to be closed: a close request of the
\* extension that names it is in flight
PreviewClosing(d) ==
    \/ \E q \in reqs : q.ok /\ q.tab.kind = "webview" /\ q.tab.doc = d
    \/ \E i \in 1..MaxOps :
        /\ ops[i].pc = "closeAll"
        /\ ~ops[i].stale
        /\ \E k \in 1..Len(ops[i].refs) : ops[i].refs[k].tab.doc = d

\* C1: while the setting enabled is false, no step of the extension executes
\* a preview command and no step asks the host to close a tab.
C1_DisabledDoesNothing ==
    ~cfg.enabled => last.exec = {} /\ last.close = {}

\* C2 (auto-open): the extension is enabled, document d of an enabled
\* language has been opened (its open debounce is running), no diff editor
\* is active, d is in no diff view and has no preview.
AutoOpenDue(d) ==
    /\ ~disposed
    /\ cfg.enabled
    /\ d \in pending
    /\ isLanguageEnabled(getLanguageIdOfDocument(d))
    /\ ~isDiffEditor(Host)
    /\ ~isDocumentInDiffView(Host, d)
    /\ PreviewRefs(Host, d) = {}

\* C2: a document that is due for auto-open gets its preview command
\* executed eventually, unless the extension is disposed, a diff editor
\* becomes active, the document goes into a diff view or a preview of it
\* appears some other way first.
C2_AutoOpenEventually ==
    \A d \in Docs :
        AutoOpenDue(d) ~> \/ d \in ExecDocs
                          \/ disposed
                          \/ isDiffEditor(Host)
                          \/ isDocumentInDiffView(Host, d)
                          \/ PreviewRefs(Host, d) # {}

\* C3 (auto-close): with enabled and autoClosePreview true, when the user
\* closes the text tab of a supported file whose preview is open, while no
\* open operation for that file is in flight (so preview-only mode is not
\* closing the tab at the same time), the extension asks the host to close
\* that preview.
C3_UserCloseClosesPreview ==
    (/\ last.kind = "UserCloseTab"
     /\ last.ref.tab.kind = "text"
     /\ isSupported(last.doc)
     /\ cfg.enabled
     /\ cfg.autoClosePreview
     /\ \A i \in 1..MaxOps : ops[i].doc # last.doc
     /\ PreviewRefs(Host, last.doc) # {})
        => PreviewClosing(last.doc)

\* C4: with enabled, autoClosePreview and previewOnlyMode true, the step in
\* which the host closes the source tab on behalf of closeSourceEditor does
\* not ask the host to close the preview of that document.
C4_PreviewOnlyKeepsPreview ==
    (/\ last.kind = "HostCloseSource"
     /\ cfg.enabled
     /\ cfg.autoClosePreview
     /\ cfg.previewOnlyMode)
        => \A r \in ClosedPreviews : r.tab.doc # last.doc

\* C5: in preview-only mode, once no open operation is in flight, at most
\* one of the preview tabs that preview-only operations opened is open.
C5_OnePreviewAtATime ==
    cfg.previewOnlyMode /\ AllIdle
        => Cardinality({r \in OpenRefs(Host) : r.tab.kind = "webview" /\ r.tab.pom}) <= 1

\* C6: when an open operation in preview-only mode has run to its end for a
\* document, no group shows a text tab of that document.
C6_PreviewOnlyHidesSource ==
    \A o \in last.done :
        o.pom /\ o.ok => \A g \in Groups : ~HasTab(Host, g, TextTab(o.doc))

\* C7: when an open operation in preview-only mode that started while the
\* preview of another document A was shown has run to its end, and no open
\* operation has started since, no preview of A is open.
C7_PreviewOnlyReplaces ==
    \A o \in last.done :
        o.pom /\ o.ok /\ o.latest => \A a \in o.replaced : PreviewRefs(Host, a) = {}

\* C8: with openOnGitDiff false, a step that executes the preview command for
\* a document finds neither a diff editor active nor the document in a diff
\* tab.
C8_NoPreviewInDiff ==
    ~cfg.openOnGitDiff
        => \A d \in ExecDocs : ~isDiffEditor(Host) /\ ~isDocumentInDiffView(Host, d)

\* C9: a preview command is executed only for a document whose language is in
\* the configured set.
C9_OnlyEnabledLanguages ==
    \A d \in ExecDocs : isLanguageEnabled(getLanguageIdOfDocument(d))

\* C10: with autoClosePreview false, a step in which the user closes a tab
\* asks the host to close no preview, and handleTabChanges, whatever closed
\* tab it is called with, returns the extension's memory as it got it.
C10_AutoCloseOffFrame ==
    ~cfg.autoClosePreview =>
        /\ last.kind = "UserCloseTab" => ClosedPreviews = {}
        /\ \A g \in Groups, t \in AllTabs :
              handleTabChanges(Mem, Host, <<Ref(g, t)>>) = Mem

\* C10: the user has just closed the text tab of a supported document whose
\* preview is open, autoClosePreview is false, and neither the marker nor the
\* debounce would have kept handleTabChanges from closing the preview
C10_Witness ==
    /\ ~cfg.autoClosePreview
    /\ cfg.enabled
    /\ last.kind = "UserCloseTab"
    /\ last.ref.tab.kind = "text"
    /\ isSupported(last.doc)
    /\ last.doc \notin marker
    /\ last.doc \notin recent
    /\ isPreviewOpen(Host, last.doc)

\* C11: when an open operation outside preview-only mode that was started
\* with preserveFocus true has run to its end, and the document it opened
\* the preview for is shown in a text tab, the active tab is the text tab of
\* that document.
C11_FocusEndsInSource ==
    \A o \in last.done :
        (/\ ~o.pom
         /\ o.pf
         /\ o.ok
         /\ \E g \in Groups : HasTab(Host, g, TextTab(o.doc)))
            => Host.at[Host.ag] = TextTab(o.doc)

\* C12: for two distinct open documents a and b, the tab that findPreviewTab
\* returns for a is never the preview of b (so closing a does not close b's
\* preview, and b's preview does not make isPreviewOpen(a) true).
C12_CorrelationExact ==
    \A a \in docsOpen : \A b \in docsOpen \ {a} :
        ~(/\ findPreviewTab(Host, a).tab.kind = "webview"
          /\ findPreviewTab(Host, a).tab.doc = b)

\* C13: a call of closePreviewForFile for a document that comes less than
\* DEBOUNCE_MS after the previous non-debounced call for the same document (the
\* document is in recent when the step starts, or the step has already called
\* for it) attempts no tab close and returns false; a call for a document with
\* no such earlier call is processed whatever other documents are debounced.
C13_CloseDebounced ==
    [][\A i \in 1..Len(last'.calls) :
          IF \/ last'.calls[i].doc \in recent
             \/ \E j \in 1..(i - 1) : last'.calls[j].doc = last'.calls[i].doc
          THEN /\ last'.calls[i].attempt = NoRef
               /\ last'.calls[i].ret = "false"
          ELSE last'.calls[i].attempt = last'.calls[i].found]_vars

C13_Witness ==
    \E i \in 1..Len(last.calls) :
        /\ last.calls[i].found.tab # NoTab
        /\ last.calls[i].attempt = NoRef
        /\ last.calls[i].ret = "false"

Quiescent ==
    /\ pending = {}
    /\ ~actTimer
    /\ AllIdle
    /\ reqs = {}

\* The steps of the user and of the host on the user's behalf; every other
\* step is the extension's own: a timer of its firing, the host answering one
\* of its requests, a debounce period ending.
UserKinds ==
    {"DocOpen", "ShowDoc", "OpenDiff", "UserCloseTab", "DocClose", "ConfigChange",
     "Dispose"}

OwnPossible == ~Quiescent \/ recent # {}
OwnTaken == last'.kind \notin UserKinds

\* OwnPossible is the enabling condition of the own steps.
OwnPossibleIsEnabled == OwnPossible <=> ENABLED <<TimerStep \/ HostStep>>_vars

\* Weak fairness of the own steps, WF_vars(TimerStep \/ HostStep), written
\* with the enabling condition as a state predicate: the own steps are not
\* possible for ever without one being taken.
QuietSpec == Spec /\ ([]<>(~OwnPossible) \/ []<><<OwnTaken>>_vars)

\* C15: once the host events have stopped, the extension comes to rest and
\* stays there: eventually no timer is armed, no operation is in flight and no
\* request is open, for good.
C15_Quiescence == <>[]Quiescent

C15_Witness ==
    /\ Quiescent
    /\ nEvents = MaxEvents
    /\ last.done # {}

\* C16: when toggleEnabled has completed and nothing else has changed the
\* settings meanwhile, config.enabled is the negation of what it was when the
\* command was called.
C16_ToggleEnabledNegates ==
    (/\ cfgLast.kind = "HostConfigUpdate"
     /\ cfgLast.key = "enabled"
     /\ cfgLast.alone)
        => cfg.enabled = ~cfgLast.before.enabled

\* C17: when togglePreviewOnlyMode has completed and nothing else has changed
\* the settings meanwhile, config.previewOnlyMode is the negation of what it
\* was when the command was called and every other setting is as it was.
C17_TogglePreviewOnlyNegates ==
    (/\ cfgLast.kind = "HostConfigUpdate"
     /\ cfgLast.key = "previewOnlyMode"
     /\ cfgLast.alone)
        => cfg = [cfgLast.before EXCEPT !.previewOnlyMode = ~@]

\* the language identifiers isLanguageEnabled is asked about
LanguageIds == SupportedLanguages \cup {"", "javascript", "Markdown", "plaintext"}

\* characters i..j of s are one entry of the comma-separated list
IsEntry(s, i, j) ==
    /\ i = 1 \/ s[i - 1] = ","
    /\ j = Len(s) \/ s[j + 1] = ","
    /\ \A k \in i..j : s[k] # ","

\* some entry of s is the name of language l in any letter case, with white
\* space and nothing else around it
HasEntry(s, l) ==
    \E i \in 1..Len(s), j \in 1..Len(s) :
        /\ IsEntry(s, i, j)
        /\ \E a \in i..j, b \in i..j :
            /\ \A k \in (i..(a - 1)) \cup ((b + 1)..j) : IsSpace(s[k])
            /\ ToLowerCase(SubSeq(s, a, b)) = LanguageName[l]

ValidEntries ==
    [str \in LanguageInputs |-> {l \in SupportedLanguages : HasEntry(CharsOf[str], l)}]

\* C18: the enabled languages are the supported languages that the entries of
\* the comma-separated setting name after trimming and lower-casing, or
\* markdown alone when no entry names one; the set is never empty, and
\* isLanguageEnabled is false for every identifier that is not one of the
\* three, the empty string included.
C18_EnabledLanguages ==
    /\ enabledLanguages = IF ValidEntries[cfg.languages] # {}
                          THEN ValidEntries[cfg.languages] ELSE {"markdown"}
    /\ enabledLanguages # {}
    /\ \A id \in LanguageIds :
        isLanguageEnabled(id) => id \in SupportedLanguages /\ id \in enabledLanguages

C18_Witness ==
    /\ cfgLast.kind = "UserEdit"
    /\ cfg.languages = " RestructuredText ,foo"
    /\ enabledLanguages = {"restructuredtext"}

\* C19: a configuration change event that affects the section reloads the
\* snapshot and the enabled languages from the settings and fires
\* onConfigChanged exactly once, with the reloaded snapshot; an event that
\* does not affect the section leaves the snapshot as it was and fires nothing.
C19_ReloadAndFireOnce ==
    cfgLast.kind \in {"UserEdit", "OtherSectionChange", "HostConfigUpdate", "ConfigChange"}
        => IF cfgLast.affects
           THEN /\ cfg = loadConfig(settings)
                /\ enabledLanguages = parseLanguages(cfg.languages)
                /\ cfgLast.fired = <<cfg>>
           ELSE /\ cfg = cfgLast.before
                /\ cfgLast.fired = <<>>

C19_Witness ==
    /\ cfgLast.kind = "UserEdit"
    /\ cfgLast.affects
    /\ cfg # cfgLast.before
    /\ cfgLast.fired = <<cfg>>

\* C20: with no setting of the section defined anywhere the snapshot holds
\* the defaults.
C20_Defaults ==
    (settings.user = NoLayer /\ settings.ws = NoLayer)
        => cfg = [enabled |-> TRUE,
                  openPreviewToSide |-> TRUE,
                  autoClosePreview |-> TRUE,
                  openOnGitDiff |-> FALSE,
                  previewOnlyMode |-> FALSE,
                  preserveFocus |-> TRUE,
                  languages |-> "markdown"]

C20_Witness ==
    /\ settings = NoSettings
    /\ cfgLast.kind = "constructor"
    /\ cfg.languages = "markdown"
    /\ cfg.enabled

\* name is the last component of path p: what follows its last separator
IsFileNameOf(name, p) ==
    /\ Len(name) <= Len(p)
    /\ SubSeq(p, Len(p) - Len(name) + 1, Len(p)) = name
    /\ \A i \in 1..Len(name) : name[i] # "/"
    /\ Len(name) < Len(p) => p[Len(p) - Len(name)] = "/"

LabelName(label) == SubSeq(label, Len(PreviewPrefix) + 1, Len(label))

\* C21: getExpectedPreviewLabel returns "Preview " followed by the base file
\* name of the URI's path, and every URI with that file name, whatever its
\* directory, gets the same label.
C21_PreviewLabel ==
    query.fn = "getExpectedPreviewLabel" =>
        /\ StartsWith(query.result, PreviewPrefix)
        /\ IsFileNameOf(LabelName(query.result), FsPath[query.uri])
        /\ \A v \in Uris :
              IsFileNameOf(LabelName(query.result), FsPath[v]) =>
                  getExpectedPreviewLabel(v) = query.result

C21_Witness ==
    /\ query.fn = "getExpectedPreviewLabel"
    /\ query.uri = "B"
    /\ query.result = <<"P", "r", "e", "v", "i", "e", "w", " ", "x", ".", "m", "d">>

MarkdownExtensions ==
    {<<".", "m", "d">>, <<".", "m", "a", "r", "k", "d", "o", "w", "n">>,
     <<".", "m", "d", "o", "w", "n">>, <<".", "m", "k", "d">>}
AsciidocExtensions ==
    {<<".", "a", "d", "o", "c">>, <<".", "a", "s", "c", "i", "i", "d", "o", "c">>}
RestructuredTextExtensions == {<<".", "r", "s", "t">>, <<".", "r", "e", "s", "t">>}

LanguageOfExtension(ext) ==
    IF ext \in MarkdownExtensions THEN "markdown"
    ELSE IF ext \in AsciidocExtensions THEN "asciidoc"
    ELSE IF ext \in RestructuredTextExtensions THEN "restructuredtext"
    ELSE Undefined

\* C22: isSupported is true exactly for the eight extensions, compared in
\* lower case; getLanguageId maps them to their language and everything
\* else to undefined; isSupported holds iff getLanguageId is defined.
C22_SupportedExtensions ==
    /\ query.fn = "isSupported" =>
          /\ query.result <=>
                ToLowerCase(Extname(FsPath[query.uri])) \in
                    MarkdownExtensions \cup AsciidocExtensions
                        \cup RestructuredTextExtensions
          /\ query.result <=> getLanguageId(query.uri) # Undefined
    /\ query.fn = "getLanguageId" =>
          /\ query.result = LanguageOfExtension(ToLowerCase(Extname(FsPath[query.uri])))
          /\ isSupported(query.uri) <=> query.result # Undefined

C22_Witness ==
    /\ query.fn = "isSupported"
    /\ query.uri = "J"
    /\ query.result = TRUE

\* the diff tabs of all groups that show u on either side
DiffTabsOf(u) ==
    {r \in OpenRefs(Host) : r.tab.kind = "diff" /\ u \in {r.tab.orig, r.tab.doc}}

\* C23: isDocumentInDiffView(uri) is true iff some tab of some group is a
\* diff tab whose original or modified URI is uri; it is false for a
\* document shown only in text tabs and for a URI that is not open.
C23_InDiffView ==
    query.fn = "isDocumentInDiffView" =>
        /\ query.result <=> DiffTabsOf(query.uri) # {}
        /\ (\A r \in OpenRefs(Host) :
                query.uri \in {r.tab.orig, r.tab.doc} => r.tab.kind = "text")
              => ~query.result

C23_Witness ==
    /\ query.fn = "isDocumentInDiffView"
    /\ query.uri = "C"
    /\ query.result = TRUE
    /\ \A r \in OpenRefs(Host) : r.tab.doc # "C"

\* C24: isDiffEditor() is true iff the active tab of the active group
\* exists and is a diff tab; false without an active tab and when the
\* active tab is a text editor.
C24_IsDiffEditor ==
    query.fn = "isDiffEditor" =>
        /\ query.result <=>
              /\ activeTab[activeGroup] # NoTab
              /\ activeTab[activeGroup].kind = "diff"
        /\ activeTab[activeGroup].kind \in {"none", "text"} => ~query.result

C24_Witness ==
    /\ query.fn = "isDiffEditor"
    /\ query.result = FALSE
    /\ activeTab[activeGroup] = NoTab
    /\ \E g \in Groups : activeTab[g].kind = "diff"

\* the webview tabs in which a preview extension renders u
PreviewsOf(u) == {r \in OpenRefs(Host) : r.tab.kind = "webview" /\ r.tab.doc = u}

\* C25: findPreviewTab returns undefined, and isPreviewOpen false, when no
\* preview exists for the source URI.
C25_UndefinedWithoutPreview ==
    PreviewsOf(query.uri) = {} =>
        /\ query.fn = "findPreviewTab" => query.result = NoRef
        /\ query.fn = "isPreviewOpen" => query.result = FALSE

\* the language the claim assigns to a document: its language id when that
\* is one of the three, otherwise the language of its file extension
ClaimedLanguage(d) ==
    IF LanguageIdOf[d] \in {"markdown", "asciidoc", "restructuredtext"}
    THEN LanguageIdOf[d]
    ELSE LanguageOfExtension(ToLowerCase(Extname(FsPath[d])))

ToSideCommand(lang) ==
    CASE lang = "markdown" -> "markdown.showPreviewToSide"
      [] lang = "asciidoc" -> "asciidoc.showPreviewToSide"
      [] lang = "restructuredtext" -> "restructuredtext.showPreviewToSide"

SameGroupCommand(lang) ==
    CASE lang = "markdown" -> "markdown.showPreview"
      [] lang = "asciidoc" -> "asciidoc.showPreview"
      [] lang = "restructuredtext" -> "restructuredtext.showPreview"

\* C26: every preview command executed for a document is a command of the
\* document's language (its language id if that is one of the three,
\* otherwise the language of its extension): the to-side command when
\* openPreviewToSide is true and the same-group command when it is false.
\* The setting is the one openPreviewIfNeeded read when it was called; a
\* command executed after closeAllMarkdownPreviews returned was chosen in an
\* earlier step.
C26_CommandOfLanguage ==
    \A e \in last.exec :
        /\ ClaimedLanguage(e.doc) # Undefined
        /\ e.cmd \in {ToSideCommand(ClaimedLanguage(e.doc)),
                      SameGroupCommand(ClaimedLanguage(e.doc))}
        /\ last.kind # "HostCloseAll" =>
              e.cmd = IF cfg.openPreviewToSide
                      THEN ToSideCommand(ClaimedLanguage(e.doc))
                      ELSE SameGroupCommand(ClaimedLanguage(e.doc))

C26_Witness ==
    /\ ~cfg.openPreviewToSide
    /\ [doc |-> "B", cmd |-> "markdown.showPreview"] \in last.exec

\* the open operations whose preview command for d has not returned
CommandsInFlight(d) == {i \in 1..MaxOps : ops[i].pc = "command" /\ ops[i].doc = d}

\* C27: outside preview-only mode, in a step that is a document-open event
\* (or its timer), an editor-activation event or the activation-time forced
\* open, the extension never executes the preview command for a document
\* while a preview command for the same document is still in flight or
\* while the document's preview tab is open.
C27_NoDuplicateCommand ==
    (/\ ~cfg.previewOnlyMode
     /\ last.kind \in {"DocOpen", "OpenTimer", "ShowDoc", "processExistingDocuments"})
        => \A e \in last.exec :
              /\ Cardinality({i \in CommandsInFlight(e.doc) : ~ops[i].pom}) <= 1
              /\ PreviewsOf(e.doc) = {}

\* the live timeouts of document d
TimeoutsOf(d) == {t \in openTimers.live : t.uri = d}

\* C28: per URI at most one open timer is pending, and _pendingOpens holds
\* exactly the URIs with one; an open event for a URI with a pending timer
\* clears it and arms a new timer of 50 ms; a burst of open events for one
\* URI, each arriving while the timer is pending, leads to exactly one call
\* of openPreviewIfNeeded, made when the timer has fired; the URI's entry is
\* removed from _pendingOpens when its timer fires.
C28_OpenDebounce ==
    /\ \A d \in Docs :
          /\ Cardinality(TimeoutsOf(d)) <= 1
          /\ d \in pending <=> TimeoutsOf(d) # {}
          /\ \A t \in TimeoutsOf(d) : t.id = openTimers.stored[d]
          /\ (Arms(d) /\ openTimers.events[d] >= 1 /\ openTimers.single[d]) =>
                openTimers.calls[d] = IF d \in pending THEN 0 ELSE 1
    /\ (openTimers.step.kind = "open" /\ openTimers.step.cleared # 0) =>
          /\ \A t \in openTimers.live : t.id # openTimers.step.cleared
          /\ openTimers.step.set # openTimers.step.cleared
          /\ \E t \in TimeoutsOf(openTimers.step.uri) :
                t.id = openTimers.step.set /\ t.left = 50
    /\ openTimers.step.kind = "timeout" => openTimers.step.uri \notin pending

C28_Witness ==
    /\ openTimers.events["A"] = 3
    /\ openTimers.single["A"]
    /\ openTimers.calls["A"] = 1
    /\ "A" \notin pending

\* the documents whose source tab closeSourceEditor has asked to close and
\* whose close the tab-change handler has not processed
SourceClosing == {ops[i].doc : i \in {j \in 1..MaxOps : ops[j].pc = "closeSrc"}}

\* C29: a URI is in _previewOnlyClosedUris only between closeSourceEditor
\* requesting the close of its source tab and the tab-change handler
\* processing that close; in every quiescent state the set is empty.
C29_MarkerTransient ==
    /\ marker \subseteq SourceClosing
    /\ Quiescent => marker = {}

\* operation i ends in this step because its preview command failed
CommandFails(i) ==
    /\ ops[i].pc = "command"
    /\ ops'[i].pc = "idle"
    /\ last'.kind = "HostCommandFailed"
    /\ last'.doc = ops[i].doc

C31_TrackingCleanedUp ==
    Quiescent => opened \subseteq docsOpen

\* C32: after dispose the three tracking collections are empty, no open
\* timer is armed, and the extension executes no preview command and closes
\* no tab, not even through an open operation that was in flight.
C32_NothingAfterDispose ==
    disposed =>
        /\ pending = {}
        /\ opened = {}
        /\ marker = {}
        /\ last.exec = {}
        /\ last.close = {}

\* the user switches to an editor of a document that is already loaded: the
\* step's only event with a listener that acts is the active-editor change
SwitchesEditor ==
    /\ nEvents' = nEvents + 1
    /\ last'.kind = "ShowDoc"
    /\ last'.doc \in docsOpen

ClosedByHand(d) ==
    /\ last.kind = "UserCloseTab"
    /\ last.ref.tab.kind = "webview"
    /\ last.ref.tab.doc = d

\* the step makes an editor of d the active editor
ActivatesEditorOf(d) ==
    /\ ActiveEditor(Host') # ActiveEditor(Host)
    /\ ActiveEditorDoc(Host') = d

\* C34: outside preview-only mode, a user's step that activates the editor
\* of a document executes a preview command for it only if the document is
\* not in _openedPreviews, has no pending open timer and has no open preview
\* tab; a preview the user has just closed by hand is not opened again by
\* the activation of the source editor while the source document stays open.
C34_ActivationGuards ==
    [][\A d \in docsOpen :
          (/\ ~cfg.previewOnlyMode
           /\ nEvents' = nEvents + 1
           /\ ActivatesEditorOf(d)
           /\ d \in docsOpen'
           /\ d \in {e.doc : e \in last'.exec}) =>
              /\ SwitchesEditor =>
                    /\ d \notin pending
                    /\ d \notin opened
                    /\ ~isPreviewOpen(Host', d)
              /\ ~ClosedByHand(d)]_vars

\* the tabs that a step closes
ClosedNow == OpenRefs(Host) \ OpenRefs(Host')

IsSupportedTextTab(t) ==
    /\ t.kind = "text"
    /\ ToLowerCase(Extname(FsPath[t.doc])) \in
          MarkdownExtensions \cup AsciidocExtensions \cup RestructuredTextExtensions

\* C35: a tab-change event whose closed tabs are all webview tabs, diff tabs
\* or text tabs with unsupported extensions makes the handler close no tab
\* and leaves _openedPreviews and _previewOnlyClosedUris unchanged.
C35_OnlySupportedTextTabs ==
    [][(/\ nEvents' = nEvents + 1
        /\ last'.kind = "TabsClosed"
        /\ \A r \in ClosedNow : ~IsSupportedTextTab(r.tab)) =>
           /\ last'.close = {}
           /\ opened' = opened
           /\ marker' = marker]_vars

\* the preview of A, tracked and marked, was closed in one event with the
\* text tab of an unsupported file or a diff tab
C35_Witness ==
    /\ last.kind = "TabsClosed"
    /\ last.ref.tab = Tab("webview", "A", FALSE)
    /\ cfg.enabled /\ cfg.autoClosePreview
    /\ "A" \in opened /\ "A" \in marker
    /\ \A r \in OpenRefs(Host) : r.tab.kind # "webview" /\ r.tab # TextTab("K")
    /\ \E r \in OpenRefs(Host) : r.tab = TextTab("B")

\* operation i starts in this step
Starts(i) ==
    /\ ops'[i].pc \in {"closeAll", "command"}
    /\ ops[i].pc \notin {"closeAll", "command"}

\* the await of executeCommand of operation i returns in this step
CommandReturns(i) ==
    /\ last'.kind = "HostCommandDone"
    /\ ops[i].pc = "command"
    /\ ops'[i].pc # "command"

\* C36: an open operation acts on the configuration it read when it started:
\* one that started with previewOnlyMode true closes the existing previews
\* and, once the command has returned, goes on to close the source tab and
\* never to the focus-restoring step, whatever preserveFocus is; one that
\* started with previewOnlyMode false does neither; the focus-restoring
\* showTextDocument is only ever answered for an operation of the second kind.
C36_PreviewOnlyPrecedence ==
    [][\A i \in 1..MaxOps :
          /\ Starts(i) =>
                /\ ops'[i].pom = cfg.previewOnlyMode
                /\ ops'[i].pf = cfg.preserveFocus
                /\ ops'[i].pom =>
                      /\ ops'[i].refs = tabsToClose(Host')
                      /\ Range(ops'[i].refs) \subseteq last'.close
                /\ ~ops'[i].pom => ops'[i].refs = <<>> /\ ops'[i].pc = "command"
          /\ CommandReturns(i) =>
                IF ops[i].pom
                THEN /\ ops'[i].pc \in {"closeSrc", "idle"}
                     /\ ops[i].doc \in marker'
                     /\ ops'[i].pc = "idle" =>
                            \A r \in OpenRefs(Host') : r.tab # TextTab(ops[i].doc)
                ELSE /\ ops'[i].pc \in {"delay", "idle"}
                     /\ ops[i].doc \in marker' => ops[i].doc \in marker
                     /\ \A r \in last'.close : r.tab.kind # "text"
          /\ (ops[i].pc = "delay" /\ last'.kind = "HostShowDoc") => ~ops[i].pom
          /\ ops'[i].pc = "delay" => ~ops'[i].pom]_vars

\* the command of an operation that started in preview-only mode with
\* preserveFocus on has returned, and the operation is closing the source tab
C36_Witness ==
    /\ last.kind = "HostCommandDone"
    /\ cfg.previewOnlyMode /\ cfg.preserveFocus
    /\ \E i \in 1..MaxOps :
          /\ ops[i].pc = "closeSrc"
          /\ ops[i].pom /\ ops[i].pf
          /\ ops[i].doc = last.doc
          /\ ops[i].doc \in marker

====
